---- MODULE Spec2Model ----
(***************************************************************************)
(* Voice-controlled Mac assistant: the orchestration core.                 *)
(*                                                                         *)
(* Threads of control:                                                     *)
(*   main      VoiceAssistant.run / start / stop          (main.py)        *)
(*   listener  VoiceListener._listen_loop, which runs the orchestrator     *)
(*             callback _on_command and, inside asyncio.run, the coroutine *)
(*             _process_command_async                  (voice_listener.py) *)
(*   consumers VoiceResponder._speak_loop threads     (voice_responder.py) *)
(*                                                                         *)
(* Texts are sequences of strings: a recognised utterance is a sequence of *)
(* one-character strings, a formatted message is the concatenation of its  *)
(* fragments.                                                              *)
(***************************************************************************)
EXTENDS Naturals, Integers, Sequences, FiniteSets, Bags, TLC

(* ------------------------------ bounds -------------------------------- *)

\* utterances the microphone delivers during one run
MaxCaptures == 2
\* tool calls in one planning response
MaxSteps == 2
\* characters of an utterance in the wake-word specification
MaxLen == 4

(* ------------------------------- texts -------------------------------- *)

\* The wake phrase given to VoiceListener.__init__, lower-cased there.
\* The two-character phrase "ha" stands for "hey assistant".
wake_word == <<"h", "a">>

Alphabet == {"h", "a", "H", "A", " ", "x"}

\* str.lower() on one character
LowerChar(c) == IF c = "H" THEN "h" ELSE IF c = "A" THEN "a" ELSE c

\* str.lower()
Lower(s) == [i \in 1..Len(s) |-> LowerChar(s[i])]

\* s[i:]
Drop(s, n) == IF n >= Len(s) THEN <<>> ELSE SubSeq(s, n + 1, Len(s))

\* s.startswith(p)
StartsWith(s, p) == Len(s) >= Len(p) /\ SubSeq(s, 1, Len(p)) = p

\* p in s
Contains(s, p) == \E i \in 0..Len(s) : StartsWith(Drop(s, i), p)

\* str.replace(old, ""): every non-overlapping occurrence, left to right
RECURSIVE ReplaceAll(_, _)
ReplaceAll(s, old) ==
    IF s = <<>> THEN <<>>
    ELSE IF StartsWith(s, old) THEN ReplaceAll(Drop(s, Len(old)), old)
    ELSE <<Head(s)>> \o ReplaceAll(Tail(s), old)

\* str.replace(old, "", 1): the first occurrence only
RECURSIVE ReplaceFirst(_, _)
ReplaceFirst(s, old) ==
    IF s = <<>> THEN <<>>
    ELSE IF StartsWith(s, old) THEN Drop(s, Len(old))
    ELSE <<Head(s)>> \o ReplaceFirst(Tail(s), old)

RECURSIVE LStrip(_)
LStrip(s) == IF s # <<>> /\ Head(s) = " " THEN LStrip(Tail(s)) ELSE s

RECURSIVE RStrip(_)
RStrip(s) ==
    IF s # <<>> /\ s[Len(s)] = " " THEN RStrip(SubSeq(s, 1, Len(s) - 1)) ELSE s

\* str.strip()
Strip(s) == RStrip(LStrip(s))

\* voice_listener.py:77
WakeWordDetected(text) == Contains(Lower(text), wake_word)

\* voice_listener.py:80
RemoveWakeWord(text) == Strip(ReplaceAll(Lower(text), wake_word))

\* mutant of Truthy: the emptiness test is dropped
TruthyAlways(s) == TRUE

\* `if command:` on a str: the empty string is false
Truthy(s) == s # <<>>

\* all sequences over S of length lo..hi
SeqsBetween(S, lo, hi) == UNION {[1..n -> S] : n \in lo..hi}


(* ----------------------------- utterances ----------------------------- *)

\* main.py:59
Greeting == <<"Voice assistant activated. I'm ready to help.">>
\* main.py:72
Goodbye == <<"Voice assistant shutting down. Goodbye!">>
\* main.py:88
Ack == <<"Working on it">>
\* main.py:107
Fallback == <<"I'm not sure how to help with that">>

\* VoiceResponder.speak_error: the text it passes to speak()
speak_error(error_msg) ==
    IF error_msg # <<>> THEN <<"Error: ">> \o error_msg
    ELSE <<"Sorry, I encountered an error">>

\* VoiceResponder.speak_task_complete: the text it passes to speak()
speak_task_complete(task_description) ==
    IF task_description # <<>> THEN <<"Done. ">> \o task_description
    ELSE <<"Task completed">>

\* what the recogniser may return for a captured utterance in a full run:
\* no wake phrase, the wake phrase alone, the wake phrase and a command
RecognisedTexts == {<<"x">>, <<"H", "A">>, <<"H", "a", " ", "x">>}

(* ------------------------- planner and executor ----------------------- *)

\* agent.py:15-25
ToolType == {"browser_navigate", "browser_click", "browser_type",
             "browser_screenshot", "mac_open_app", "mac_close_app",
             "mac_type_text", "mac_press_key", "send_message", "wait"}

\* the names execute_tool dispatches on, tools_executor.py:40-53
HandledTools == {"mac_open_app", "mac_type_text", "mac_press_key",
                 "browser_navigate", "browser_click", "browser_type",
                 "send_message"}

\* tool names the planning service answers with in the model: one with a
\* handler, one ToolType value without a handler, one outside ToolType
PlannerNames == {"mac_open_app", "wait", "open_app"}

\* the planning service's answers: the call raises, a free-text reply
\* (possibly empty), or one or more tool calls
Responses ==
    {[kind |-> "raise", content |-> <<>>, calls |-> <<>>]}
    \cup {[kind |-> "reply", content |-> c, calls |-> <<>>] :
            c \in {<<>>, <<"it is noon">>}}
    \cup {[kind |-> "tools", content |-> <<>>, calls |-> cs] :
            cs \in SeqsBetween(PlannerNames, 1, MaxSteps)}

NoTask == [id |-> 0, description |-> <<>>, status |-> "unbound",
           steps |-> <<>>, result |-> <<>>]

\* mutant of BuildSteps: the steps are collected in reverse order
BuildStepsReversed(calls) ==
    [k \in 1..Len(calls) |-> calls[Len(calls) + 1 - k]]

\* agent.py:199-210: one Tool per tool call, in the order of the response
BuildSteps(calls) == [k \in 1..Len(calls) |-> calls[k]]

\* ToolType(func_name) raises ValueError for a name outside the enum
PlanRaises(r) ==
    \/ r.kind = "raise"
    \/ r.kind = "tools" /\ \E k \in 1..Len(r.calls) : r.calls[k] \notin ToolType

\* str(e) of the exception process_voice_command lets escape
PlanException(r) ==
    IF r.kind = "raise" THEN <<"planning service unavailable">>
    ELSE LET k == CHOOSE j \in 1..Len(r.calls) :
                     /\ r.calls[j] \notin ToolType
                     /\ \A m \in 1..(j - 1) : r.calls[m] \in ToolType
         IN <<"'", r.calls[k], "' is not a valid ToolType">>

\* mutant of PlannedTask: the direct answer is not stored in the Task
PlannedTaskDropsReply(r, cmd, history) ==
    IF r.kind = "tools"
    THEN [id |-> Len(history), description |-> cmd, status |-> "pending",
          steps |-> BuildSteps(r.calls), result |-> <<>>]
    ELSE [id |-> Len(history), description |-> cmd, status |-> "completed",
          steps |-> <<>>, result |-> <<>>]

\* mutant of PlannedTask: the direct answer's Task is created pending
PlannedTaskAlwaysPending(r, cmd, history) ==
    IF r.kind = "tools"
    THEN [id |-> Len(history), description |-> cmd, status |-> "pending",
          steps |-> BuildSteps(r.calls), result |-> <<>>]
    ELSE [id |-> Len(history), description |-> cmd, status |-> "pending",
          steps |-> <<>>, result |-> r.content]

\* agent.py:212-232: the Task process_voice_command returns
PlannedTask(r, cmd, history) ==
    IF r.kind = "tools"
    THEN [id |-> Len(history), description |-> cmd, status |-> "pending",
          steps |-> BuildSteps(r.calls), result |-> <<>>]
    ELSE [id |-> Len(history), description |-> cmd, status |-> "completed",
          steps |-> <<>>, result |-> r.content]

\* dict.get(key, default)
Get(d, key, default) == IF key \in DOMAIN d THEN d[key] ELSE default

\* every name execute_tool is called with in the executor specification:
\* the ToolType values and one name outside the enum
ToolNames == ToolType \cup {"open_app"}

\* the parameters of a call: the required parameters are given or absent
\* (params.get returns None), and the messaging app asked for
Params == [given : BOOLEAN, app : {"imessage", "whatsapp", "telegram"}]

\* how far _ensure_browser gets when it has to initialise: all the way, or
\* async_playwright().start(), chromium.launch or new_page raises
InitOutcomes == {"ok", "no_driver", "no_browser", "no_page"}

\* the backends of a call: activating an application works or raises, and
\* the keystrokes, the browser or the script work or raise
Backends == [open : BOOLEAN, act : BOOLEAN, init : InitOutcomes]

\* a call returns a value or raises an exception
Return(v) == [raised |-> FALSE, value |-> v]
Raise(e) == [raised |-> TRUE, exc |-> e]

Success(msg) == [success |-> TRUE, message |-> msg]
Failure(err) == [success |-> FALSE, error |-> err]

\* str(e) of an exception raised by a backend
BackendError == "backend error"

\* text[:50] on None, outside the handler's try
NoneSubscript == Raise(<<"'NoneType' object is not subscriptable">>)

\* tools_executor.py:66-94
mac_open_app(b) ==
    IF b.open THEN Return(Success(<<"Opened ", "{app_name}">>))
    ELSE Return(Failure(<<"Failed to open ", "{app_name}", ": ", BackendError>>))

\* tools_executor.py:96-116
mac_type_text(p, b) ==
    IF ~p.given THEN NoneSubscript
    ELSE IF b.act THEN Return(Success(<<"Typed ", "{len(text)}", " characters">>))
    ELSE Return(Failure(<<"Failed to type text: ", BackendError>>))

\* tools_executor.py:118-137
mac_press_key(b) ==
    IF b.act THEN Return(Success(<<"Pressed ", "{key}">>))
    ELSE Return(Failure(<<"Failed to press ", "{key}", ": ", BackendError>>))

\* ToolExecutor.__init__: browser, browser_page and playwright are None;
\* playwright holds the number of the driver instance, 0 for None
NoSession == [browser |-> FALSE, browser_page |-> FALSE, playwright |-> 0]

\* no automation driver instance has been started
NoDrivers == [started |-> 0, live |-> {}]

\* tools_executor.py:141-148: the fields ex and the driver instances dr
\* after _ensure_browser, and whether it returned (ok) or raised
EnsureBrowser(ex, dr, b) ==
    IF ex.browser THEN [ex |-> ex, dr |-> dr, ok |-> TRUE]
    ELSE IF b.init = "no_driver" THEN [ex |-> ex, dr |-> dr, ok |-> FALSE]
    ELSE LET id == dr.started + 1
             dr1 == [started |-> id, live |-> dr.live \cup {id}]
             ex1 == [ex EXCEPT !.playwright = id]
         IN IF b.init = "no_browser"
            THEN [ex |-> ex1, dr |-> dr1, ok |-> FALSE]
            ELSE IF b.init = "no_page"
            THEN [ex |-> [ex1 EXCEPT !.browser = TRUE], dr |-> dr1,
                  ok |-> FALSE]
            ELSE [ex |-> [ex1 EXCEPT !.browser = TRUE, !.browser_page = TRUE],
                  dr |-> dr1, ok |-> TRUE]

\* self.browser_page can be used after _ensure_browser: it returned, the
\* page exists and its driver has not been stopped
PageUsable(e) ==
    e.ok /\ e.ex.browser_page /\ e.ex.playwright \in e.dr.live

\* tools_executor.py:150-177; url.startswith on None raises inside the try
browser_navigate(p, b, e) ==
    IF PageUsable(e) /\ p.given /\ b.act
    THEN Return([success |-> TRUE, message |-> <<"Navigated to ", "{url}">>,
                 url |-> <<"{url}">>])
    ELSE Return(Failure(<<"Failed to navigate: ", BackendError>>))

\* tools_executor.py:179-199
browser_click(b, e) ==
    IF PageUsable(e) /\ b.act THEN Return(Success(<<"Clicked ", "{selector}">>))
    ELSE Return(Failure(<<"Failed to click: ", BackendError>>))

\* tools_executor.py:201-222
browser_type(p, b, e) ==
    IF ~p.given THEN NoneSubscript
    ELSE IF PageUsable(e) /\ b.act
    THEN Return(Success(<<"Typed into ", "{selector}">>))
    ELSE Return(Failure(<<"Failed to type: ", BackendError>>))

\* tools_executor.py:253-277
send_imessage(b) ==
    IF b.act THEN Return(Success(<<"Sent iMessage to ", "{recipient}">>))
    ELSE Return(Failure(<<"Failed to send iMessage: ", BackendError>>))

\* tools_executor.py:279-313; the result of _mac_open_app is not looked at
send_whatsapp(b) ==
    LET opened == mac_open_app(b)
    IN IF b.act
       THEN Return(Success(<<"Sent WhatsApp message to ", "{recipient}">>))
       ELSE Return(Failure(<<"Failed to send WhatsApp: ", BackendError>>))

\* tools_executor.py:226-251; app.lower() on None raises inside the try
send_message(p, b) ==
    IF ~p.given THEN Return(Failure(<<"Failed to send message: ", BackendError>>))
    ELSE IF p.app = "imessage" THEN send_imessage(b)
    ELSE IF p.app = "whatsapp" THEN send_whatsapp(b)
    ELSE Return(Failure(<<"Unsupported messaging app: ", p.app>>))

\* tools_executor.py:40-55: the dispatch inside the try
Dispatched(tool_name, p, b, e) ==
    CASE tool_name = "mac_open_app" -> mac_open_app(b)
      [] tool_name = "mac_type_text" -> mac_type_text(p, b)
      [] tool_name = "mac_press_key" -> mac_press_key(b)
      [] tool_name = "browser_navigate" -> browser_navigate(p, b, e)
      [] tool_name = "browser_click" -> browser_click(b, e)
      [] tool_name = "browser_type" -> browser_type(p, b, e)
      [] tool_name = "send_message" -> send_message(p, b)
      [] OTHER -> Raise(<<"Unknown tool: ", tool_name>>)

\* mutant of Catch: the dispatcher has no except clause
CatchNothing(o) == o

\* tools_executor.py:57-62: except Exception as e, the failed result
Catch(o) == IF o.raised THEN Return(Failure(o.exc)) ELSE o

\* tools_executor.py:33-62; e is what _ensure_browser does in this call
execute_tool(tool_name, p, b, e) == Catch(Dispatched(tool_name, p, b, e))

\* the call reaches _ensure_browser
UsesBrowser(tool_name, p) ==
    \/ tool_name \in {"browser_navigate", "browser_click"}
    \/ tool_name = "browser_type" /\ p.given

\* one call of execute_tool with the executor's fields ex and the driver
\* instances dr: its outcome and the fields and instances after it
Call(tool_name, p, b, ex, dr) ==
    LET e == EnsureBrowser(ex, dr, b)
    IN [o |-> execute_tool(tool_name, p, b, e),
        ex |-> IF UsesBrowser(tool_name, p) THEN e.ex ELSE ex,
        dr |-> IF UsesBrowser(tool_name, p) THEN e.dr ELSE dr]

\* the calls of execute_tool that return, for a tool name, over every
\* parameter mapping and every backend behaviour
ExecuteTool(tool_name, ex, dr) ==
    {c \in {Call(tool_name, p, b, ex, dr) : p \in Params, b \in Backends} :
        ~c.o.raised}

\* mutant of ToolFailed: a failed result does not stop the loop
ToolFailedNever(result) == FALSE

\* main.py:123
ToolFailed(result) == ~Get(result, "success", FALSE)

(* ------------------------------- state -------------------------------- *)

VARIABLES
    mpc,                  \* main thread: position in run / start / stop
    is_running,           \* VoiceAssistant.is_running
    is_listening,         \* VoiceListener.is_listening
    lpc,                  \* listener thread: position in _listen_loop
    captures,             \* utterances the microphone has delivered so far
    text,                 \* _listen_loop: the recognised text
    command,              \* the command handed to _process_command
    command_queue,        \* VoiceListener.command_queue
    response_queue,       \* VoiceResponder.response_queue, items [id, text]
    is_speaking,          \* VoiceResponder.is_speaking
    consumers,            \* the live _speak_loop threads, a bag of [pc, item]
    engine,               \* ids of the utterances inside engine.say /
                          \* runAndWait; 0 is a blocking speak()
    spk,                  \* the non-blocking speak() call in progress
    conversation_history, \* CometAgent.conversation_history
    cpc,                  \* the coroutine _process_command_async
    response,             \* the planning service's answer in this cycle
    task,                 \* _process_command_async: task
    i,                    \* _process_command_async: index of the step
    results,              \* _process_command_async: results
    error_msg,            \* _process_command_async: error_msg
    invoked,              \* history: execute_tool calls of this cycle
    spoken,               \* history: texts this cycle passed to speak()
    next_id,              \* history: number of the next enqueued utterance
    stop_in_exec,         \* history: stop() began while tools were executing
    stop_id,              \* history: next_id when VoiceResponder.stop() began,
                          \* kept in the shutdown specification only
    executor,             \* ToolExecutor: browser, browser_page, playwright
    drivers               \* the automation driver instances started, and
                          \* those of them not yet stopped

vars == <<mpc, is_running, is_listening, lpc, captures, text, command,
          command_queue, response_queue, is_speaking, consumers, engine, spk,
          conversation_history, cpc, response, task, i, results, error_msg,
          invoked, spoken, next_id, stop_in_exec, stop_id, executor, drivers>>

browserVars == <<executor, drivers>>

mainVars == <<mpc, is_running>>
listenVars == <<lpc, captures, text, command, command_queue>>
speechVars == <<response_queue, is_speaking, consumers, engine, spk, next_id>>
frameVars == <<response, task, i, results, error_msg, invoked, spoken>>
cycleVars == <<conversation_history, cpc, frameVars>>

NoItem == [id |-> 0, text |-> <<>>]
NoSpeak == [pc |-> "idle", text |-> <<>>, who |-> "none", ret |-> "none"]
NoResponse == [kind |-> "none", content |-> <<>>, calls |-> <<>>]

\* no frame of _process_command_async exists
NoFrame ==
    /\ response = NoResponse
    /\ task = NoTask
    /\ i = 0
    /\ results = <<>>
    /\ error_msg = <<>>
    /\ invoked = <<>>
    /\ spoken = <<>>

\* the state after VoiceAssistant.__init__
InitCommon ==
    /\ mpc = "init"
    /\ is_running = FALSE
    /\ is_listening = FALSE
    /\ captures = 0
    /\ command = <<>>
    /\ command_queue = <<>>
    /\ response_queue = <<>>
    /\ is_speaking = FALSE
    /\ consumers = EmptyBag
    /\ engine = {}
    /\ spk = NoSpeak
    /\ conversation_history = <<>>
    /\ cpc = "idle"
    /\ NoFrame
    /\ next_id = 1
    /\ stop_in_exec = FALSE
    /\ stop_id = 0
    /\ executor = NoSession
    /\ drivers = NoDrivers

Init ==
    /\ InitCommon
    /\ lpc = "idle"
    /\ text = <<>>

\* daemon threads run until the interpreter exits
Alive == mpc # "exited"

(* ----------------------------- main thread ---------------------------- *)

\* VoiceAssistant.start up to the greeting; VoiceListener.start
Start ==
    /\ mpc = "init"
    /\ is_running' = TRUE
    /\ IF is_listening
       THEN UNCHANGED <<is_listening, lpc>>
       ELSE is_listening' = TRUE /\ lpc' = "loop"
    /\ mpc' = "greet"
    /\ UNCHANGED <<captures, text, command, command_queue, speechVars,
                   cycleVars, stop_in_exec, stop_id, browserVars>>

\* speak(text, blocking=True): engine.say, runAndWait begins
BlockingSay(at, next) ==
    /\ mpc = at
    /\ engine' = engine \cup {0}
    /\ mpc' = next
    /\ UNCHANGED <<is_running, is_listening, listenVars, response_queue,
                   is_speaking, consumers, spk, next_id, cycleVars,
                   stop_in_exec, stop_id, browserVars>>

\* runAndWait returns
BlockingDone(at, next) ==
    /\ mpc = at
    /\ engine' = engine \ {0}
    /\ mpc' = next
    /\ UNCHANGED <<is_running, is_listening, listenVars, response_queue,
                   is_speaking, consumers, spk, next_id, cycleVars,
                   stop_in_exec, stop_id, browserVars>>

GreetSay == BlockingSay("greet", "greeting")
GreetDone == BlockingDone("greeting", "running")

\* the tool sequence of the cycle is being executed
ExecutingTools == cpc \in {"exec", "tool"}

\* run(): KeyboardInterrupt, then stop() up to listener.stop()'s join
Stop ==
    /\ mpc = "running"
    /\ is_running' = FALSE
    /\ is_listening' = FALSE
    /\ mpc' = "join"
    /\ stop_in_exec' = ExecutingTools
    /\ UNCHANGED <<listenVars, speechVars, cycleVars, stop_id, browserVars>>

\* listen_thread.join(timeout=2): the thread has ended
JoinReturns ==
    /\ mpc = "join"
    /\ lpc = "exit"
    /\ mpc' = "bye"
    /\ UNCHANGED <<is_running, is_listening, listenVars, speechVars,
                   cycleVars, stop_in_exec, stop_id, browserVars>>

\* listen_thread.join(timeout=2): the timeout expires first
JoinTimeout ==
    /\ mpc = "join"
    /\ lpc # "exit"
    /\ mpc' = "bye"
    /\ UNCHANGED <<is_running, is_listening, listenVars, speechVars,
                   cycleVars, stop_in_exec, stop_id, browserVars>>

ByeSay == BlockingSay("bye", "byeing")
ByeDone == BlockingDone("byeing", "rstop")

\* VoiceResponder.stop: is_speaking = False
ClearIsSpeaking ==
    /\ mpc = "rstop"
    /\ is_speaking' = FALSE
    /\ mpc' = "clear"
    /\ UNCHANGED <<is_running, is_listening, listenVars, response_queue,
                   consumers, engine, spk, next_id, cycleVars, stop_in_exec,
                   browserVars>>

ResponderStop == ClearIsSpeaking /\ UNCHANGED stop_id

\* the same step, with the utterances enqueued so far noted in stop_id
ResponderStopNoted == ClearIsSpeaking /\ stop_id' = next_id

\* VoiceResponder.stop: while not empty(): get_nowait()
ClearQueue ==
    /\ mpc = "clear"
    /\ IF response_queue # <<>>
       THEN response_queue' = Tail(response_queue) /\ mpc' = "clear"
       ELSE mpc' = "estop" /\ UNCHANGED response_queue
    /\ UNCHANGED <<is_running, is_listening, listenVars, is_speaking,
                   consumers, engine, spk, next_id, cycleVars, stop_in_exec,
                   stop_id, browserVars>>

\* VoiceResponder.stop: engine.stop() ends the playback in progress
EngineStop ==
    /\ mpc = "estop"
    /\ engine' = {}
    /\ mpc' = "cleanup"
    /\ UNCHANGED <<is_running, is_listening, listenVars, response_queue,
                   is_speaking, consumers, spk, next_id, cycleVars,
                   stop_in_exec, stop_id, browserVars>>

\* asyncio.run(self.executor.cleanup()): the browser is closed and the
\* driver self.playwright refers to is stopped; stop() returns
Cleanup ==
    /\ mpc = "cleanup"
    /\ mpc' = "stopped"
    /\ drivers' = [drivers EXCEPT !.live = @ \ {executor.playwright}]
    /\ UNCHANGED <<is_running, is_listening, listenVars, speechVars,
                   cycleVars, stop_in_exec, stop_id, executor>>

\* run() and main() return: the interpreter exits, daemon threads with it
Exit ==
    /\ mpc = "stopped"
    /\ mpc' = "exited"
    /\ UNCHANGED <<is_running, is_listening, listenVars, speechVars,
                   cycleVars, stop_in_exec, stop_id, browserVars>>

(* --------------------------- listener thread -------------------------- *)

\* _listen_loop: while self.is_listening; the locals of the last iteration
\* are dead here
LoopTest ==
    /\ Alive /\ lpc = "loop"
    /\ lpc' = IF is_listening THEN "listen" ELSE "exit"
    /\ UNCHANGED <<mainVars, is_listening, captures, text, command,
                   command_queue, speechVars, cycleVars, stop_in_exec, stop_id, browserVars>>

\* mutant of HearNothing: the exception leaves _listen_loop
HearNothingCrashes(at) ==
    /\ Alive /\ lpc = at
    /\ lpc' = "exit"
    /\ UNCHANGED <<mainVars, is_listening, captures, text, command,
                   command_queue, speechVars, cycleVars, stop_in_exec,
                   stop_id, browserVars>>

\* recognizer.listen raises WaitTimeoutError (continue) or anything else
\* (logged, sleep(1)), or _recognize_speech returns None or "": back to
\* the loop test
HearNothing(at) ==
    /\ Alive /\ lpc = at
    /\ lpc' = "loop"
    /\ UNCHANGED <<mainVars, is_listening, captures, text, command,
                   command_queue, speechVars, cycleVars, stop_in_exec, stop_id, browserVars>>

ListenNothing == HearNothing("listen")

\* recognizer.listen returns audio and _recognize_speech returns its text
Listen ==
    /\ Alive /\ lpc = "listen"
    /\ captures < MaxCaptures
    /\ captures' = captures + 1
    /\ \E u \in RecognisedTexts : text' = u
    /\ lpc' = "wake"
    /\ UNCHANGED <<mainVars, is_listening, command, command_queue,
                   speechVars, cycleVars, stop_in_exec, stop_id, browserVars>>

\* voice_listener.py:76-87
CheckWakeWord ==
    /\ lpc = "wake"
    /\ IF WakeWordDetected(text)
       THEN /\ command' = RemoveWakeWord(text)
            /\ lpc' = IF Truthy(command') THEN "process" ELSE "wait_listen"
       ELSE /\ lpc' = "loop"
            /\ UNCHANGED command
    /\ UNCHANGED <<mainVars, is_listening, captures, command_queue,
                   speechVars, cycleVars, stop_in_exec, stop_id, browserVars>>

\* the listener thread's step at the wake-word test; text is dead after it
WakeWord ==
    /\ Alive
    /\ CheckWakeWord
    /\ text' = <<>>

\* _wait_for_command: timeout, error or nothing recognised
WaitNothing == HearNothing("wait_listen")

\* _wait_for_command: the follow-up utterance is the command, as recognised;
\* an empty recognition result is dropped by `if command:`
WaitListen ==
    /\ Alive /\ lpc = "wait_listen"
    /\ captures < MaxCaptures
    /\ captures' = captures + 1
    /\ \E u \in RecognisedTexts \cup {<<>>} :
          /\ command' = u
          /\ lpc' = IF Truthy(u) THEN "process" ELSE "loop"
    /\ UNCHANGED <<mainVars, is_listening, text, command_queue, speechVars,
                   cycleVars, stop_in_exec, stop_id, browserVars>>

\* _process_command: command_queue.put(command), then self.callback(command)
ProcessCommand ==
    /\ Alive /\ lpc = "process"
    /\ command_queue' = Append(command_queue, command)
    /\ lpc' = "on_command"
    /\ UNCHANGED <<mainVars, is_listening, captures, text, command,
                   speechVars, cycleVars, stop_in_exec, stop_id, browserVars>>

\* self.callback(command) raises before it has done anything (speak()
\* cannot start its thread); _process_command logs it and returns
CallbackRaises ==
    /\ Alive /\ lpc = "on_command"
    /\ lpc' = "loop"
    /\ command' = <<>>
    /\ UNCHANGED <<mainVars, is_listening, captures, text, command_queue,
                   speechVars, cycleVars, stop_in_exec, stop_id, browserVars>>

\* mutant of OnCommand: the coroutine is started with no acknowledgement
OnCommandNoAck ==
    /\ Alive /\ lpc = "on_command"
    /\ lpc' = "run"
    /\ UNCHANGED <<mainVars, is_listening, captures, text, command,
                   command_queue, speechVars, cycleVars, stop_in_exec,
                   stop_id, browserVars>>

\* _on_command: self.responder.speak("Working on it", blocking=False)
OnCommand ==
    /\ Alive /\ lpc = "on_command"
    /\ spk' = [pc |-> "put", text |-> Ack, who |-> "listener", ret |-> "run"]
    /\ lpc' = "speaking"
    /\ UNCHANGED <<mainVars, is_listening, captures, text, command,
                   command_queue, response_queue, is_speaking, consumers,
                   engine, next_id, cycleVars, stop_in_exec, stop_id, browserVars>>

\* _on_command: asyncio.run(self._process_command_async(command)) begins
RunAsync ==
    /\ Alive /\ lpc = "run"
    /\ lpc' = "await"
    /\ cpc' = "plan"
    /\ UNCHANGED <<mainVars, is_listening, captures, text, command,
                   command_queue, speechVars, conversation_history,
                   frameVars, stop_in_exec, stop_id, browserVars>>

\* mutant of AsyncioRunDone: the coroutine is scheduled and not awaited
AsyncioRunNoWait == TRUE

\* asyncio.run returns when the coroutine has finished
AsyncioRunDone == cpc = "idle"

\* _on_command and _process_command return to the loop; command is dead
CallbackReturns ==
    /\ Alive /\ lpc = "await"
    /\ AsyncioRunDone
    /\ lpc' = "loop"
    /\ command' = <<>>
    /\ UNCHANGED <<mainVars, is_listening, captures, text, command_queue,
                   speechVars, cycleVars, stop_in_exec, stop_id, browserVars>>

(* ----------------- speak(text, blocking=False), by steps -------------- *)

\* the caller goes on at spk.ret
SpeakReturn ==
    /\ spk' = NoSpeak
    /\ IF spk.who = "listener"
       THEN lpc' = spk.ret /\ UNCHANGED cpc
       ELSE cpc' = spk.ret /\ UNCHANGED lpc

\* self.response_queue.put(text)
SpeakPut ==
    /\ Alive /\ spk.pc = "put"
    /\ response_queue' =
           Append(response_queue, [id |-> next_id, text |-> spk.text])
    /\ next_id' = next_id + 1
    /\ spoken' = IF spk.who = "cycle" THEN Append(spoken, spk.text) ELSE spoken
    /\ spk' = [spk EXCEPT !.pc = "test"]
    /\ UNCHANGED <<mainVars, is_listening, listenVars, is_speaking, consumers,
                   engine, conversation_history, cpc, response, task, i,
                   results, error_msg, invoked, stop_in_exec, stop_id, browserVars>>

\* if not self.is_speaking
SpeakTest ==
    /\ Alive /\ spk.pc = "test"
    /\ IF is_speaking
       THEN SpeakReturn
       ELSE spk' = [spk EXCEPT !.pc = "start"] /\ UNCHANGED <<lpc, cpc>>
    /\ UNCHANGED <<mainVars, is_listening, captures, text, command,
                   command_queue, response_queue, is_speaking, consumers,
                   engine, next_id, conversation_history, frameVars,
                   stop_in_exec, stop_id, browserVars>>

\* _start_speak_thread
SpeakStart ==
    /\ Alive /\ spk.pc = "start"
    /\ is_speaking' = TRUE
    /\ consumers' = consumers (+) SetToBag({[pc |-> "loop", item |-> NoItem]})
    /\ SpeakReturn
    /\ UNCHANGED <<mainVars, is_listening, captures, text, command,
                   command_queue, response_queue, engine, next_id,
                   conversation_history, frameVars, stop_in_exec, stop_id, browserVars>>

(* ------------------- _process_command_async (coroutine) --------------- *)

\* the coroutine calls speak(t) and goes on at ret
CycleSpeaks(t, ret) ==
    /\ spk' = [pc |-> "put", text |-> t, who |-> "cycle", ret |-> ret]
    /\ cpc' = "speaking"

\* task = await self.agent.process_voice_command(command); an exception is
\* caught at main.py:137 and spoken
Plan ==
    /\ Alive /\ cpc = "plan"
    /\ conversation_history' =
           Append(conversation_history, [role |-> "user", content |-> command])
    /\ \E r \in Responses :
          /\ response' = r
          /\ IF PlanRaises(r)
             THEN /\ CycleSpeaks(speak_error(<<"Failed to process command: ">>
                                             \o PlanException(r)), "done")
                  /\ UNCHANGED task
             ELSE /\ task' = PlannedTask(r, command, conversation_history')
                  /\ cpc' = "planned"
                  /\ UNCHANGED spk
    /\ UNCHANGED <<mainVars, is_listening, listenVars, response_queue,
                   is_speaking, consumers, engine, next_id, i, results,
                   error_msg, invoked, spoken, stop_in_exec, stop_id, browserVars>>

\* main.py:102-112
Dispatch ==
    /\ Alive /\ cpc = "planned"
    /\ IF task.steps = <<>>
       THEN /\ CycleSpeaks(IF task.result # <<>> THEN task.result
                           ELSE Fallback, "done")
            /\ UNCHANGED <<task, i>>
       ELSE /\ task' = [task EXCEPT !.status = "in_progress"]
            /\ i' = 1
            /\ cpc' = "exec"
            /\ UNCHANGED spk
    /\ UNCHANGED <<mainVars, is_listening, listenVars, response_queue,
                   is_speaking, consumers, engine, next_id,
                   conversation_history, response, results, error_msg,
                   invoked, spoken, stop_in_exec, stop_id, browserVars>>

\* main.py:119: execute_tool is called for step i
ExecCall ==
    /\ Alive /\ cpc = "exec"
    /\ invoked' = Append(invoked, task.steps[i])
    /\ cpc' = "tool"
    /\ UNCHANGED <<mainVars, is_listening, listenVars, speechVars,
                   conversation_history, response, task, i, results,
                   error_msg, spoken, stop_in_exec, stop_id, browserVars>>

\* main.py:119-135: execute_tool returns; fail fast, next step, or complete
ExecReturn ==
    /\ Alive /\ cpc = "tool"
    /\ \E c \in ExecuteTool(task.steps[i], executor, drivers) :
        LET result == c.o.value IN
          /\ executor' = c.ex
          /\ drivers' = c.dr
          /\ results' = Append(results, result)
          /\ IF ToolFailed(result)
             THEN /\ error_msg' = Get(result, "error", <<"Unknown error">>)
                  /\ CycleSpeaks(speak_error(error_msg'), "set_failed")
                  /\ UNCHANGED <<task, i>>
             ELSE IF i < Len(task.steps)
             THEN /\ i' = i + 1
                  /\ cpc' = "exec"
                  /\ UNCHANGED <<task, error_msg, spk>>
             ELSE /\ task' = [task EXCEPT !.status = "completed"]
                  /\ CycleSpeaks(speak_task_complete(task.description), "done")
                  /\ UNCHANGED <<i, error_msg>>
    /\ UNCHANGED <<mainVars, is_listening, listenVars, response_queue,
                   is_speaking, consumers, engine, next_id,
                   conversation_history, response, invoked, spoken,
                   stop_in_exec, stop_id>>

\* mutant of SetFailed: no return after the failure, the completion
\* summary is spoken as well
SetFailedFallsThrough ==
    /\ Alive /\ cpc = "set_failed"
    /\ task' = [task EXCEPT !.status = "failed"]
    /\ CycleSpeaks(speak_task_complete(task.description), "done")
    /\ UNCHANGED <<mainVars, is_listening, listenVars, response_queue,
                   is_speaking, consumers, engine, next_id,
                   conversation_history, response, i, results, error_msg,
                   invoked, spoken, stop_in_exec, stop_id, browserVars>>

\* main.py:127-128
SetFailed ==
    /\ Alive /\ cpc = "set_failed"
    /\ task' = [task EXCEPT !.status = "failed"]
    /\ cpc' = "done"
    /\ UNCHANGED <<mainVars, is_listening, listenVars, speechVars,
                   conversation_history, response, i, results, error_msg,
                   invoked, spoken, stop_in_exec, stop_id, browserVars>>

\* the coroutine returns: its frame is gone
CoroutineReturns ==
    /\ Alive /\ cpc = "done"
    /\ cpc' = "idle"
    /\ response' = NoResponse
    /\ task' = NoTask
    /\ i' = 0
    /\ results' = <<>>
    /\ error_msg' = <<>>
    /\ invoked' = <<>>
    /\ spoken' = <<>>
    /\ UNCHANGED <<mainVars, is_listening, listenVars, speechVars,
                   conversation_history, stop_in_exec, stop_id, browserVars>>

(* --------------------------- _speak_loop threads ---------------------- *)

\* the thread in state c moves to [pc, item]
ConsumerMoves(c, pc, item) ==
    consumers' = (consumers (-) SetToBag({c}))
                     (+) SetToBag({[pc |-> pc, item |-> item]})

\* while self.is_speaking; a thread that leaves the loop is gone
ConsumerLoop(c) ==
    /\ c.pc = "loop"
    /\ IF is_speaking
       THEN ConsumerMoves(c, "get", NoItem)
       ELSE consumers' = consumers (-) SetToBag({c})
    /\ UNCHANGED <<response_queue, is_speaking, engine>>

\* text = self.response_queue.get(timeout=1)
ConsumerGet(c) ==
    /\ c.pc = "get"
    /\ response_queue # <<>>
    /\ ConsumerMoves(c, "say", Head(response_queue))
    /\ response_queue' = Tail(response_queue)
    /\ UNCHANGED <<is_speaking, engine>>

\* get raises queue.Empty after the timeout
ConsumerEmpty(c) ==
    /\ c.pc = "get"
    /\ response_queue = <<>>
    /\ ConsumerMoves(c, "empty", NoItem)
    /\ UNCHANGED <<response_queue, is_speaking, engine>>

\* except queue.Empty: self.is_speaking = False
ConsumerClear(c) ==
    /\ c.pc = "empty"
    /\ is_speaking' = FALSE
    /\ ConsumerMoves(c, "loop", NoItem)
    /\ UNCHANGED <<response_queue, engine>>

\* self.engine.say(text); self.engine.runAndWait() begins
ConsumerSay(c) ==
    /\ c.pc = "say"
    /\ engine' = engine \cup {c.item.id}
    /\ ConsumerMoves(c, "rendering", c.item)
    /\ UNCHANGED <<response_queue, is_speaking>>

\* runAndWait returns, or raises and the error is logged (line 92)
ConsumerDone(c) ==
    /\ c.pc = "rendering"
    /\ engine' = engine \ {c.item.id}
    /\ ConsumerMoves(c, "loop", NoItem)
    /\ UNCHANGED <<response_queue, is_speaking>>

ConsumerStep ==
    /\ Alive
    /\ \E c \in BagToSet(consumers) :
          \/ ConsumerLoop(c)
          \/ ConsumerGet(c)
          \/ ConsumerEmpty(c)
          \/ ConsumerClear(c)
          \/ ConsumerSay(c)
          \/ ConsumerDone(c)
    /\ UNCHANGED <<mainVars, is_listening, listenVars, spk, next_id,
                   cycleVars, stop_in_exec, stop_id, browserVars>>

\* what the consumer threads and VoiceResponder.stop do to the state that
\* speak() shares with them, whichever thread does it: the head of the
\* queue is taken (lines 83, 134), is_speaking is cleared (lines 91, 129)
ConsumerEffect ==
    /\ Alive
    /\ \/ /\ response_queue # <<>>
          /\ response_queue' = Tail(response_queue)
          /\ UNCHANGED is_speaking
       \/ /\ is_speaking
          /\ is_speaking' = FALSE
          /\ UNCHANGED response_queue
    /\ UNCHANGED <<mainVars, is_listening, listenVars, consumers, engine, spk,
                   next_id, cycleVars, stop_in_exec, stop_id, browserVars>>

(* ---------------------------- specification --------------------------- *)

Next ==
    \/ Start \/ GreetSay \/ GreetDone \/ Stop \/ JoinReturns \/ JoinTimeout
    \/ ByeSay \/ ByeDone \/ ResponderStop \/ ClearQueue \/ EngineStop
    \/ Cleanup \/ Exit
    \/ LoopTest \/ ListenNothing \/ Listen \/ WakeWord \/ WaitNothing
    \/ WaitListen \/ ProcessCommand \/ OnCommand \/ RunAsync
    \/ CallbackReturns
    \/ SpeakPut \/ SpeakTest \/ SpeakStart
    \/ Plan \/ Dispatch \/ ExecCall \/ ExecReturn \/ SetFailed
    \/ CoroutineReturns
    \/ ConsumerStep

Spec == Init /\ [][Next]_vars


\* the listener thread and the command cycle it runs, from start() to the
\* clearing of is_listening by stop(); the speech consumers are present
\* through their effect on the queue and on is_speaking only
NextCycle ==
    \/ Start \/ GreetSay \/ GreetDone \/ Stop
    \/ LoopTest \/ ListenNothing \/ Listen \/ WakeWord \/ WaitNothing
    \/ WaitListen \/ ProcessCommand \/ OnCommand \/ RunAsync
    \/ CallbackReturns
    \/ SpeakPut \/ SpeakTest \/ SpeakStart
    \/ Plan \/ Dispatch \/ ExecCall \/ ExecReturn \/ SetFailed
    \/ CoroutineReturns
    \/ ConsumerEffect

SpecCycle == Init /\ [][NextCycle]_vars


\* the listener thread and the command cycle, with a callback that can
\* raise
NextListen == NextCycle \/ CallbackRaises

SpecListen == Init /\ [][NextListen]_vars

(* ------------------- wake-word stripping on its own -------------------- *)

\* the listener has recognised a non-empty text and is at the wake-word
\* test of an iteration of _listen_loop
InitWake ==
    /\ mpc = "running"
    /\ is_running = TRUE
    /\ is_listening = TRUE
    /\ captures = 1
    /\ command = <<>>
    /\ command_queue = <<>>
    /\ response_queue = <<>>
    /\ is_speaking = FALSE
    /\ consumers = EmptyBag
    /\ engine = {}
    /\ spk = NoSpeak
    /\ conversation_history = <<>>
    /\ cpc = "idle"
    /\ NoFrame
    /\ next_id = 1
    /\ stop_in_exec = FALSE
    /\ stop_id = 0
    /\ executor = NoSession
    /\ drivers = NoDrivers
    /\ lpc = "wake"
    /\ text \in SeqsBetween(Alphabet, 1, MaxLen)

\* the wake-word test, the recognised text kept for comparison
WakeStep == CheckWakeWord /\ UNCHANGED text

\* one iteration of _listen_loop from the wake-word test to the callback
NextWake == WakeStep \/ WaitNothing \/ WaitListen \/ ProcessCommand

SpecWake == InitWake /\ [][NextWake]_vars

(* ----------------------- execute_tool on its own ----------------------- *)

\* the browser session an earlier Task can have left behind: none, or what
\* one _ensure_browser call on a fresh executor leaves
PriorSessions ==
    {[ex |-> EnsureBrowser(NoSession, NoDrivers, b).ex,
      dr |-> EnsureBrowser(NoSession, NoDrivers, b).dr] : b \in Backends}
    \cup {[ex |-> NoSession, dr |-> NoDrivers]}

\* a cycle is in its tool loop with a plan of any names, the ToolType
\* values and a name outside the enum, after an earlier Task
InitExec ==
    /\ mpc = "running"
    /\ is_running = TRUE
    /\ is_listening = TRUE
    /\ lpc = "await"
    /\ captures = 1
    /\ text = <<>>
    /\ command = <<"x">>
    /\ command_queue = << <<"x">> >>
    /\ response_queue = <<>>
    /\ is_speaking = FALSE
    /\ consumers = EmptyBag
    /\ engine = {}
    /\ spk = NoSpeak
    /\ conversation_history = <<[role |-> "user", content |-> <<"x">>]>>
    /\ cpc = "exec"
    /\ \E steps \in SeqsBetween(ToolNames, 1, MaxSteps) :
          /\ response = [kind |-> "tools", content |-> <<>>, calls |-> steps]
          /\ task = [id |-> 1, description |-> <<"x">>,
                     status |-> "in_progress", steps |-> steps,
                     result |-> <<>>]
    /\ i = 1
    /\ results = <<>>
    /\ error_msg = <<>>
    /\ invoked = <<>>
    /\ spoken = <<>>
    /\ next_id = 2
    /\ stop_in_exec = FALSE
    /\ stop_id = 0
    /\ \E s \in PriorSessions : executor = s.ex /\ drivers = s.dr

\* the tool loop of main.py:115-128: each step calls execute_tool; stop()
\* on the main thread, whose join of the listener thread times out
NextExec ==
    \/ ExecCall \/ ExecReturn
    \/ Stop \/ JoinTimeout \/ ByeSay \/ ByeDone \/ ResponderStop
    \/ ClearQueue \/ EngineStop \/ Cleanup

SpecExec == InitExec /\ [][NextExec]_vars

(* ------------------------ one command cycle ---------------------------- *)

\* the listener has put a command on the command queue and is about to
\* call the orchestrator callback _on_command
InitTask ==
    /\ mpc = "running"
    /\ is_running = TRUE
    /\ is_listening = TRUE
    /\ lpc = "on_command"
    /\ captures = 1
    /\ text = <<>>
    /\ command \in RecognisedTexts
    /\ command_queue = <<command>>
    /\ response_queue = <<>>
    /\ is_speaking = FALSE
    /\ consumers = EmptyBag
    /\ engine = {}
    /\ spk = NoSpeak
    /\ conversation_history = <<>>
    /\ cpc = "idle"
    /\ NoFrame
    /\ next_id = 1
    /\ stop_in_exec = FALSE
    /\ stop_id = 0
    /\ executor = NoSession
    /\ drivers = NoDrivers

\* the steps of _on_command, of _process_command_async and of the speak()
\* calls they make
CycleNext ==
    \/ OnCommand \/ RunAsync \/ CallbackReturns
    \/ Plan \/ Dispatch \/ ExecCall \/ ExecReturn \/ SetFailed
    \/ SpeakPut \/ SpeakTest \/ SpeakStart
    \/ CoroutineReturns

NextTask == CycleNext \/ ConsumerEffect

\* asyncio.run drives the coroutine until it has finished: the planning
\* call and every handler return, and speak(blocking=False) does not wait
SpecTask == InitTask /\ [][NextTask]_vars /\ WF_vars(CycleNext)

(* ------------------------ shutdown of the speech ----------------------- *)

\* start() and stop() on the main thread, the listener thread up to the
\* acknowledgement of a command, and the speech consumers
NextStop ==
    \/ Start \/ GreetSay \/ GreetDone \/ Stop \/ JoinReturns \/ JoinTimeout
    \/ ByeSay \/ ByeDone \/ ResponderStopNoted \/ ClearQueue \/ EngineStop
    \/ Cleanup \/ Exit
    \/ LoopTest \/ ListenNothing \/ Listen \/ WakeWord \/ WaitNothing
    \/ WaitListen \/ ProcessCommand \/ OnCommand
    \/ SpeakPut \/ SpeakTest \/ SpeakStart
    \/ ConsumerStep

SpecStop == Init /\ [][NextStop]_vars

(* ------------------------------- claims -------------------------------- *)

\* a cycle has spoken its outcome and is at or past the status update
Spoken == cpc \in {"set_failed", "done"}

\* C1: when the result of step k has success = false, no handler is invoked
\* for the steps after k, the error handed to speak_error and spoken (after
\* the fixed "Error: ") is the error text of that result, and the task ends
\* with status failed.
C1_FailFast ==
    \A k \in 1..Len(results) :
        ~results[k].success =>
            /\ k = Len(results)
            /\ invoked = SubSeq(task.steps, 1, k)
            /\ error_msg = results[k].error
            /\ cpc \in {"speaking", "set_failed", "done"}
            /\ cpc = "speaking" => spk.text = <<"Error: ">> \o results[k].error
            /\ Spoken => spoken = << <<"Error: ">> \o results[k].error >>
            /\ cpc = "done" => task.status = "failed"

\* C1 witness: a two-step plan whose first step failed has ended
C1_Witness ==
    /\ cpc = "done"
    /\ Len(task.steps) = 2
    /\ Len(results) = 1
    /\ ~results[1].success
    /\ Len(invoked) = 1

\* the planning response is a non-empty free-text reply
DirectAnswer == response.kind = "reply" /\ response.content # <<>>

\* C2: a response with no tool calls and a non-empty reply leads to no
\* execute_tool call, the reply is what the cycle speaks, and the Task has
\* status completed.
C2_DirectAnswer ==
    DirectAnswer =>
        /\ invoked = <<>>
        /\ results = <<>>
        /\ task.status = "completed"
        /\ task.steps = <<>>
        /\ cpc \in {"planned", "speaking", "done"}
        /\ cpc = "speaking" => spk.text = response.content
        /\ cpc = "done" => spoken = <<response.content>>

\* C2 witness: a cycle with a direct answer has ended
C2_Witness == DirectAnswer /\ cpc = "done" /\ task.status = "completed"

\* C5: whenever the listener thread is outside asyncio.run, and so able to
\* start a cycle, no cycle is in flight: a cycle begins only after the one
\* before it has ended.
C5_OneCycleAtATime ==
    lpc # "await" => cpc = "idle" /\ NoFrame

\* C5 witness: the callback is entered for a second command
C5_Witness ==
    /\ lpc = "on_command"
    /\ Len(command_queue) = 2
    /\ Len(conversation_history) = 1

\* the planning response names a tool outside ToolType
UnknownToolNamed ==
    /\ response.kind = "tools"
    /\ \E k \in 1..Len(response.calls) : response.calls[k] \notin ToolType

\* C6 as claimed: a response naming a tool outside ToolType leads to no
\* handler invocation and the command's Task ends with status failed.
C6_UnknownToolFailsTask ==
    UnknownToolNamed =>
        /\ invoked = <<>>
        /\ cpc = "done" => task.status = "failed"

\* C7: the Task's steps are the tool calls of the response in their order;
\* the execute_tool calls of the cycle are a prefix of them, one call per
\* step, and a step is called only after the step before it succeeded.
C7_StepsInOrder ==
    response.kind = "tools" =>
        /\ task # NoTask => task.steps = response.calls
        /\ ~UnknownToolNamed => task # NoTask
        /\ Len(invoked) <= Len(response.calls)
        /\ invoked = SubSeq(response.calls, 1, Len(invoked))
        /\ Len(results) <= Len(invoked)
        /\ Len(invoked) <= Len(results) + 1
        /\ \A j \in 2..Len(invoked) : results[j - 1].success

\* C7 witness: a plan of two different tools has run to completion
C7_Witness ==
    /\ cpc = "done"
    /\ Len(response.calls) = 2
    /\ response.calls[1] # response.calls[2]
    /\ invoked = response.calls
    /\ Len(results) = Len(invoked)


\* C3 as claimed: at most one utterance is inside the text-to-speech engine
\* at any instant.
C3_OneRenderAtATime == Cardinality(engine) <= 1

\* C4 as claimed: of two utterances enqueued by non-blocking speak(), the
\* later one is never being rendered while the earlier one, taken from the
\* queue by a consumer, has not finished its render.
C4_RenderInEnqueueOrder ==
    \A a, b \in BagToSet(consumers) :
        ~ /\ a.item.id < b.item.id
          /\ a.pc \in {"say", "rendering"}
          /\ b.pc = "rendering"

\* the listener thread can take no further step
ListenerEnded == lpc \in {"idle", "exit"}

\* C8 as claimed: when stop() was called during the execution of tools,
\* then once it has returned both queues are empty and neither the listener
\* thread nor a speech consumer thread can take a step.
C8_QuietAfterStop ==
    (mpc = "stopped" /\ stop_in_exec) =>
        /\ command_queue = <<>>
        /\ response_queue = <<>>
        /\ ListenerEnded
        /\ consumers = EmptyBag

\* listener.stop() has returned and stop() goes on with the teardown
TeardownBegun ==
    mpc \in {"bye", "byeing", "rstop", "clear", "estop", "cleanup", "stopped"}

\* C9 as claimed: once listener.stop() has returned, the listener thread
\* does not invoke the orchestrator callback any more.
C9_NoCallbackAfterListenerStop ==
    [][TeardownBegun => ~(lpc = "process" /\ lpc' = "on_command")]_vars

\* C10 as claimed: for an utterance that contains the wake phrase, the
\* command is the (lower-cased, stripped) utterance with the first
\* occurrence of the wake phrase removed and every later one kept.
C10_FirstOccurrenceOnly ==
    (lpc \in {"process", "wait_listen"} /\ text # <<>>) =>
        command = Strip(ReplaceFirst(Lower(text), wake_word))

\* the recognised text is the wake phrase and whitespace, nothing else
WakeOnly == WakeWordDetected(text) /\ Strip(ReplaceAll(Lower(text), wake_word)) = <<>>

\* the listener is handing a command to the queue and the callback
Emitting == lpc \in {"process", "on_command"}

\* C11: the text put on the command queue and passed to the callback is
\* never empty; after an utterance that holds only the wake phrase exactly
\* one follow-up utterance is captured, and either that text, non-empty and
\* as recognised, is emitted or nothing is emitted.
C11_NeverEmptyCommand ==
    /\ \A k \in 1..Len(command_queue) : command_queue[k] # <<>>
    /\ Emitting => command # <<>>
    /\ (WakeOnly /\ Emitting) =>
         /\ captures = 2
         /\ command \in RecognisedTexts
         /\ lpc = "on_command" => command_queue = <<command>>
    /\ (WakeOnly /\ lpc = "loop") => (command_queue = <<>> /\ captures <= 2)

C11_Witness ==
    /\ WakeOnly
    /\ lpc = "on_command"
    /\ captures = 2
    /\ command_queue = <<command>>
    /\ command # <<>>

\* the wake-word test has just stripped the recognised text into command
Stripped == captures = 1 /\ lpc \in {"process", "wait_listen"}

\* C12: stripping the wake phrase is idempotent and case-insensitive:
\* stripping the stripped text again gives the same text, and the result
\* does not depend on the case of the utterance.
C12_StripIdempotent ==
    Stripped =>
        /\ RemoveWakeWord(command) = command
        /\ command = RemoveWakeWord(Lower(text))

\* the cycle is waiting on the planning service or on a tool handler
CycleWaiting == cpc \in {"plan", "tool"}

\* the listener thread is in its capture loop: at the loop test or at a
\* recognizer.listen call
ListenerCapturing == lpc \in {"loop", "listen", "wait_listen"}

\* C13: while a cycle waits on the planner or on a tool handler the listener
\* is not blocked: it is in its capture loop and can take a capture step
\* before the cycle finishes.
C13_ListenerNotBlocked == CycleWaiting => ListenerCapturing

\* the planning service call of the running cycle raised
ServiceRaised == response.kind = "raise"

\* C14: when the planning service call raises, the cycle invokes no tool
\* handler, speaks one error summary and ends with the command's Task in
\* status failed, and the listener thread that ran it is still alive to
\* return to its loop.
C14_PlannerFailureFailsTask ==
    ServiceRaised =>
        /\ invoked = <<>>
        /\ lpc = "await"
        /\ cpc = "done" =>
             /\ spoken = << <<"Error: ", "Failed to process command: ",
                              "planning service unavailable">> >>
             /\ task.status = "failed"

\* stop() has not been called
BeforeStop == mpc \in {"init", "greet", "greeting", "running"}

\* no call of speak() is between its put and its return
NoSpeakInProgress == spk = NoSpeak

\* C15: with no call to stop(), an utterance enqueued by a non-blocking
\* speak() is never left in the queue with no consumer running: once the
\* speak() call has returned, a queued utterance has a live consumer thread
\* that will render it.
C15_NoStrandedUtterance ==
    (BeforeStop /\ NoSpeakInProgress /\ response_queue # <<>>) =>
        consumers # EmptyBag

\* C16: at most one speech consumer thread is alive at any instant.
C16_OneConsumer == BagCardinality(consumers) <= 1

\* VoiceResponder.stop() has returned
ResponderStopped == mpc \in {"cleanup", "stopped", "exited"}

\* C17: VoiceResponder.stop() drops all pending speech: after it has
\* returned, no utterance enqueued before it was called is in the queue or
\* is being rendered (engine.stop() ended the playback in progress, so a
\* render in progress after the return began after it).
C17_StopDropsPending ==
    ResponderStopped =>
        /\ \A k \in 1..Len(response_queue) : response_queue[k].id >= stop_id
        /\ \A id \in engine : id >= stop_id

\* the shape of a result: a success flag, with a message and no error when
\* true, with a non-empty error and no message when false
WellFormed(r) ==
    /\ "success" \in DOMAIN r
    /\ r.success \in BOOLEAN
    /\ r.success => ("message" \in DOMAIN r /\ "error" \notin DOMAIN r)
    /\ ~r.success =>
         ("error" \in DOMAIN r /\ r.error # <<>> /\ "message" \notin DOMAIN r)

\* C18: execute_tool never raises: for every tool name, known or not, every
\* parameter mapping, missing parameters included, and every backend
\* failure it returns a result; a failed result carries a non-empty error
\* and no message, a successful one a message and no error.
C18_ExecuteToolTotal ==
    /\ cpc = "tool" =>
         \A p \in Params, b \in Backends :
            LET o == execute_tool(task.steps[i], p, b,
                                  EnsureBrowser(executor, drivers, b))
            IN ~o.raised /\ WellFormed(o.value)
    /\ \A k \in 1..Len(results) : WellFormed(results[k])

C18_Witness ==
    /\ Len(results) = 2
    /\ results[1].success
    /\ ~results[2].success
    /\ results[2].error = <<"'NoneType' object is not subscriptable">>
    /\ invoked = <<"mac_open_app", "mac_type_text">>

\* a result came from the `raise ValueError(f"Unknown tool: ...")` branch
FromUnknownBranch(r) ==
    ~r.success /\ r.error # <<>> /\ Head(r.error) = "Unknown tool: "

\* C19: every ToolType value has a registered handler: for a plan the
\* planner produced, each execute_tool call is dispatched to a handler and
\* none reaches the unknown-tool branch.
C19_EveryToolTypeHandled ==
    /\ \A k \in 1..Len(invoked) : invoked[k] \in HandledTools
    /\ \A k \in 1..Len(results) : ~FromUnknownBranch(results[k])

\* the status assignments of a Task: created pending or, for a direct
\* answer, completed; then in_progress; then completed or failed
StatusMoves == {<<"unbound", "pending">>, <<"unbound", "completed">>,
                <<"pending", "in_progress">>, <<"in_progress", "completed">>,
                <<"in_progress", "failed">>}

TaskEnded == task.status \in {"completed", "failed"}

\* C20: a Task's status moves only pending -> in_progress -> completed or
\* failed, or is completed from creation for a direct answer with no steps;
\* a completed or failed Task never changes again while the cycle holds it;
\* a cycle that ends with a Task ends with it completed or failed; and a
\* Task with tool steps, once pending or in progress, reaches completed or
\* failed when the handlers return.
C20_TaskStatusLifecycle ==
    /\ [][\/ task' = task
          \/ /\ <<task.status, task'.status>> \in StatusMoves
             /\ task.status = "unbound" =>
                  (task'.status = "completed" <=> task'.steps = <<>>)
             /\ task.status # "unbound" =>
                  task' = [task EXCEPT !.status = task'.status]
          \/ cpc = "done" /\ cpc' = "idle" /\ task' = NoTask]_vars
    /\ []((cpc = "done" /\ task # NoTask) => TaskEnded)
    /\ (task.status \in {"pending", "in_progress"}) ~> TaskEnded

C20_Witness ==
    /\ cpc = "done"
    /\ task.status = "failed"
    /\ Len(task.steps) = 2
    /\ Len(results) = 2
    /\ results[1].success

\* the planner has been called, or an outcome has been enqueued, in the
\* cycle of the one command of the single-cycle specification
PlannerCalled == conversation_history # <<>> \/ cpc \notin {"idle", "plan"}

\* C21: the acknowledgement is enqueued before the planner is called and
\* before any outcome utterance of the command is enqueued, by a speak()
\* that never waits: the first utterance put on the speech queue is the
\* acknowledgement, put by _on_command while no cycle runs; the planner is
\* called and outcomes are enqueued only after that put; and every step of
\* a speak() call in progress is enabled whatever the consumers do.
C21_AckFirst ==
    /\ [][(next_id = 1 /\ next_id' # next_id) =>
            /\ spk.who = "listener"
            /\ cpc = "idle" /\ ~PlannerCalled /\ spoken = <<>>
            /\ response_queue' =
                   Append(response_queue, [id |-> 1, text |-> Ack])]_vars
    /\ []((PlannerCalled \/ cpc = "plan" \/ spoken # <<>>) => next_id >= 2)
    /\ []((spk.who = "listener" /\ spk.pc # "idle") =>
            ENABLED (SpeakPut \/ SpeakTest \/ SpeakStart))

C21_Witness ==
    /\ cpc = "plan"
    /\ lpc = "await"
    /\ response_queue = <<[id |-> 1, text |-> Ack]>>
    /\ conversation_history = <<>>

\* cleanup() has run
CleanedUp == mpc = "stopped"

\* C22: the browser session is initialised lazily and only once: also when
\* an initialisation attempt has failed partway, at most one automation
\* driver instance is started before cleanup, and cleanup() leaves no
\* started instance running.
C22_OneDriverInstance ==
    /\ ~CleanedUp => drivers.started <= 1
    /\ CleanedUp => drivers.live = {}

\* C23: while is_listening is true the listener loop never terminates: the
\* thread leaves the loop only at the loop test and only with is_listening
\* false; a capture that times out, fails or is not recognised, an
\* utterance without the wake phrase, and an exception raised by the
\* callback all bring the thread back to the loop test.
C23_LoopSurvives ==
    /\ [](lpc = "exit" => ~is_listening)
    /\ [][(lpc # "exit" /\ lpc' = "exit")
                => (lpc = "loop" /\ ~is_listening)]_vars
    /\ [][(lpc \in {"listen", "wait_listen"} /\ lpc' # lpc
                /\ captures' = captures) => lpc' = "loop"]_vars
    /\ [][(lpc = "wake" /\ lpc' # lpc /\ ~WakeWordDetected(text))
                => lpc' = "loop"]_vars
    /\ [][(lpc = "on_command" /\ lpc' \notin {"on_command", "speaking"})
                => lpc' = "loop"]_vars

C23_Witness ==
    /\ lpc = "listen"
    /\ is_listening
    /\ Len(command_queue) = 1
    /\ next_id = 1
    /\ conversation_history = <<>>

\* the listener holds no command: it is between two callbacks
NoCommandInHand == lpc \in {"loop", "listen", "wake", "wait_listen", "exit"}

\* C24: commands are taken off the command queue one at a time, so the
\* queue is empty again once a command's cycle has ended and its depth does
\* not grow with the number of commands processed.
C24_QueueDrained ==
    /\ NoCommandInHand => command_queue = <<>>
    /\ Len(command_queue) <= 1

\* C25: a planner call that produced a Task has appended to the history
\* both the command and the reply or tool-call plan made for it: the
\* history's last entry is the assistant's, after the user's command.
C25_HistoryHoldsPlan ==
    task # NoTask =>
        /\ Len(conversation_history) >= 2
        /\ conversation_history[Len(conversation_history)].role = "assistant"
        /\ conversation_history[Len(conversation_history) - 1] =
               [role |-> "user", content |-> command]

\* the one outcome utterance the path of the cycle calls for
Outcome ==
    IF response.kind = "reply"
    THEN (IF response.content # <<>> THEN response.content ELSE Fallback)
    ELSE IF task = NoTask
    THEN <<"Error: ", "Failed to process command: ">> \o PlanException(response)
    ELSE IF task.status = "failed"
    THEN <<"Error: ">> \o results[Len(results)].error
    ELSE <<"Done. ">> \o task.description

\* C26: a command cycle enqueues exactly one outcome utterance after the
\* acknowledgement, on every path: never more than one during the cycle,
\* and when the coroutine ends exactly the one its path calls for, so that
\* the callback has made two puts, the acknowledgement and the outcome.
C26_OneOutcome ==
    /\ Len(spoken) <= 1
    /\ cpc = "done" => (spoken = <<Outcome>> /\ next_id = 3)
    /\ lpc = "loop" => next_id = 3

C26_Witness ==
    /\ cpc = "done"
    /\ response.kind = "reply"
    /\ response.content = <<>>
    /\ spoken = <<Fallback>>
    /\ next_id = 3

\* a send_message call is in flight
SendingMessage == cpc = "tool" /\ task.steps[i] = "send_message"

\* C27: the WhatsApp handler returns one aggregate result that is a success
\* only if every primitive it invoked succeeded: whenever its open-WhatsApp
\* step returns a failed result, the result of the send_message call is a
\* failure.
C27_WhatsAppAggregate ==
    SendingMessage =>
        \A p \in Params, b \in Backends :
            (p.given /\ p.app = "whatsapp" /\ ~mac_open_app(b).value.success)
                => ~execute_tool("send_message", p, b,
                                 EnsureBrowser(executor, drivers, b)).value.success

\* a tool call is in flight: execute_tool has been called and has not
\* returned
ToolInFlight == cpc = "tool"

BrowserTools == {"browser_navigate", "browser_click", "browser_type"}

\* C28: cleanup() never runs while a tool call is in flight, and no browser
\* tool call returns from a session that cleanup() has already closed.
C28_CleanupAfterTools ==
    /\ [][(mpc = "cleanup" /\ mpc' = "stopped") => ~ToolInFlight]_vars
    /\ [][(CleanedUp /\ ToolInFlight /\ ~ToolInFlight')
            => ~(task.steps[i] \in BrowserTools /\ executor.browser)]_vars

====
